---- MODULE Spec2Model ----
(***************************************************************************)
(* A model of franchisor_app.py: the Streamlit script main(), the loader   *)
(* load_sheet_data, and the aggregations calculate_revenue_metrics,        *)
(* create_revenue_chart and create_product_analysis.                       *)
(*                                                                         *)
(* Amounts are integers counted in pence.  A quotient (a float in the      *)
(* code) is an exact fraction [num, den] in lowest terms.  A dict is a     *)
(* sequence of <<key, value>> pairs in insertion order.  A DataFrame is    *)
(* the sequence of its rows.                                               *)
(***************************************************************************)
EXTENDS Integers, Sequences, FiniteSets, TLC

VARIABLES
    pc,             \* position of the running script
    gc,             \* the handle cached by st.cache_resource
    w_location,     \* widget state of the three sidebar selectboxes
    w_year,
    w_month,
    location,       \* main's locals
    year,
    month,
    remote,         \* what the remote source does on this load
    data,           \* load_sheet_data's local `data`
    df,             \* the table load_sheet_data returned
    reported,       \* st.error messages of this run, in order
    raised,         \* an exception escaped load_sheet_data
    metrics,        \* calculate_revenue_metrics(df)
    daily_revenue,  \* the series create_revenue_chart plots
    product_stats   \* the table create_product_analysis returns

vars == <<pc, gc, w_location, w_year, w_month, location, year, month, remote,
          data, df, reported, raised, metrics, daily_revenue, product_stats>>

(***************************************************************************)
(* Bounds                                                                  *)
(***************************************************************************)
MaxDataRows == 2    \* data rows of a remote grid
MaxTableRows == 3   \* rows of a table handed to the aggregations

(***************************************************************************)
(* Helpers                                                                 *)
(***************************************************************************)
Range(s) == {s[i] : i \in DOMAIN s}

Take(s, n) == IF n >= Len(s) THEN s ELSE SubSeq(s, 1, n)

SeqsUpTo(S, n) == UNION {[1..k -> S] : k \in 0..n}

RECURSIVE GCD(_, _)
GCD(a, b) == IF b = 0 THEN a ELSE GCD(b, a % b)

\* Python's a / b on numbers, kept exact.
Ratio(a, b) == LET g == GCD(a, b) IN [num |-> a \div g, den |-> b \div g]

(***************************************************************************)
(* LOCATIONS                                                               *)
(***************************************************************************)
TabsMayToDec25 ==
    <<"May 25", "Jun 25", "Jul 25", "Aug 25", "Sep 25", "Oct 25", "Nov 25", "Dec 25">>

LOCATIONS ==
    [l \in {"Oxford East", "Milton Keynes", "Berkhamsted", "Basingstoke", "Aylesbury"} |->
        IF l = "Aylesbury"
        THEN [sheet_name |-> "Aylesbury Monthly Tracker",
              years |-> <<2023, 2024, 2025>>,
              months |-> [y \in {2023, 2024, 2025} |->
                  IF y = 2023
                  THEN <<"Feb 23", "Mar 23", "Apr 23", "May 23", "Jun 23", "Jul 23",
                         "Aug 23", "Sep 23", "Oct 23", "Nov 23", "Dec 23">>
                  ELSE IF y = 2024
                  THEN <<"Jan 24", "Feb 24", "Mar 24", "Apr 24", "May 24", "Jun 24",
                         "Jul 24", "Aug 24", "Sep 24", "Oct 24", "Nov 24", "Dec 24">>
                  ELSE <<"Jan 25", "Feb 25", "Mar 25", "Apr 25", "May 25", "Jun 25",
                         "Jul 25", "Aug 25", "Sep 25", "Oct 25", "Nov 25", "Dec 25">>]]
        ELSE [sheet_name |-> IF l = "Oxford East" THEN "Oxford East Monthly Tracker"
                             ELSE IF l = "Milton Keynes" THEN "Milton Keynes Monthly Tracker"
                             ELSE IF l = "Berkhamsted" THEN "Berkhamsted Monthly Revenue Tracker"
                             ELSE "Basingstoke Monthly Tracker",
              years |-> <<2025>>,
              months |-> [y \in {2025} |-> TabsMayToDec25]]]

\* list(LOCATIONS.keys()): insertion order.
LocationKeys ==
    <<"Oxford East", "Milton Keynes", "Berkhamsted", "Basingstoke", "Aylesbury">>

(***************************************************************************)
(* The remote source                                                       *)
(*                                                                         *)
(* remote = [fault, grid]: which call of this load fails ("none", "open",  *)
(* "worksheet", "records", "values") and the tab's grid of cells, header   *)
(* row first.  The code treats a grid as a list of lists: rows may be      *)
(* shorter or longer than the header row.                                  *)
(***************************************************************************)
HasDuplicates(s) == \E i, j \in DOMAIN s : i < j /\ s[i] = s[j]

\* d[k] = v on a dict: an existing key keeps its place and takes the value.
DictSet(d, k, v) ==
    IF \E j \in DOMAIN d : d[j][1] = k
    THEN [j \in DOMAIN d |-> IF d[j][1] = k THEN <<k, v>> ELSE d[j]]
    ELSE Append(d, <<k, v>>)

DictKeys(d) == [j \in DOMAIN d |-> d[j][1]]

DictGet(d, k) == d[CHOOSE j \in DOMAIN d : d[j][1] = k][2]

\* for i, header in enumerate(clean_headers):
\*     row_dict[header] = row[i] if i < len(row) else ''
RECURSIVE RowDict(_, _, _, _)
RowDict(headers, row, i, d) ==
    IF i > Len(headers) THEN d
    ELSE RowDict(headers, row, i + 1,
                 DictSet(d, headers[i], IF i <= Len(row) THEN row[i] ELSE ""))

\* worksheet.get_all_records(): an error that is not the duplicate-header
\* one, the duplicate-header error when the header row repeats a cell, else
\* one record per data row, keyed by the header row.
GetAllRecords(r) ==
    IF r.fault = "records" THEN [exc |-> "other", value |-> <<>>]
    ELSE IF Len(r.grid) = 0 THEN [exc |-> "", value |-> <<>>]
    ELSE IF HasDuplicates(r.grid[1]) THEN [exc |-> "duplicates", value |-> <<>>]
    ELSE [exc |-> "",
          value |-> [i \in 1..(Len(r.grid) - 1) |->
                        RowDict(r.grid[1], r.grid[i + 1], 1, <<>>)]]

\* worksheet.get_all_values(): the grid, or an error.
GetAllValues(r) ==
    IF r.fault = "values" THEN [exc |-> "other", value |-> <<>>]
    ELSE [exc |-> "", value |-> r.grid]

(***************************************************************************)
(* load_sheet_data                                                         *)
(***************************************************************************)
\* for row in rows: if len(row) >= len(clean_headers): data.append(row_dict)
RECURSIVE AppendRows(_, _, _, _)
AppendRows(clean_headers, rows, i, acc) ==
    IF i > Len(rows) THEN acc
    ELSE AppendRows(clean_headers, rows, i + 1,
                    IF Len(rows[i]) >= Len(clean_headers)
                    THEN Append(acc, RowDict(clean_headers, rows[i], 1, <<>>))
                    ELSE acc)

\* The raw-grid branch: the records built from get_all_values().
RawGridRecords(all_values) ==
    IF Len(all_values) > 1
    THEN LET headers == all_values[1]
             clean_headers == IF Len(headers) >= 4 THEN SubSeq(headers, 1, 4) ELSE headers
             rows == SubSeq(all_values, 2, Len(all_values))
         IN  AppendRows(clean_headers, rows, 1, <<>>)
    ELSE <<>>

\* The inner try/except: [exc, data].
FetchData(r) ==
    LET recs == GetAllRecords(r) IN
    IF recs.exc = "" THEN [exc |-> FALSE, data |-> recs.value]
    ELSE IF recs.exc = "duplicates"
    THEN LET vals == GetAllValues(r) IN
         IF vals.exc = "" THEN [exc |-> FALSE, data |-> RawGridRecords(vals.value)]
         ELSE [exc |-> TRUE, data |-> <<>>]
    ELSE [exc |-> TRUE, data |-> <<>>]

NaT == [ok |-> FALSE, date |-> 0, time |-> 0]

\* pd.to_datetime(cell, errors='coerce') of one cell.
ToDatetime(cell) ==
    CASE cell = "2025-05-01 09:00" -> [ok |-> TRUE, date |-> 20250501, time |-> 900]
      [] cell = "2025-05-01 17:30" -> [ok |-> TRUE, date |-> 20250501, time |-> 1730]
      [] cell = "2025-05-02 09:00" -> [ok |-> TRUE, date |-> 20250502, time |-> 900]
      [] OTHER -> NaT

\* pd.to_numeric(cell, errors='coerce') of one cell, in pence; NaN is ok = FALSE.
ToNumeric(cell) ==
    CASE cell = "0" -> [ok |-> TRUE, val |-> 0]
      [] cell = "0.50" -> [ok |-> TRUE, val |-> 50]
      [] cell = "1.00" -> [ok |-> TRUE, val |-> 100]
      [] OTHER -> [ok |-> FALSE, val |-> 0]

\* .fillna(0)
FillNa0(x) == IF x.ok THEN x.val ELSE 0

\* pd.DataFrame(data).columns: the keys in order of first appearance.
RECURSIVE Columns(_, _, _)
Columns(recs, i, acc) ==
    IF i > Len(recs) THEN acc
    ELSE LET ks == DictKeys(recs[i])
             fresh == SelectSeq(ks, LAMBDA k : k \notin Range(acc))
         IN  Columns(recs, i + 1, acc \o fresh)

\* df.dropna(subset=['DateTime'])
DropNaT(rows) == SelectSeq(rows, LAMBDA r : r.DateTime.ok)

\* From `if not data` to the return.
Normalize(recs, loc, yr, mo) ==
    IF recs = <<>> THEN <<>>
    ELSE LET cols == Columns(recs, 1, <<>>) IN
         IF Len(cols) >= 4
         THEN DropNaT([i \in DOMAIN recs |->
                  [DateTime |-> ToDatetime(DictGet(recs[i], cols[1])),
                   Product  |-> DictGet(recs[i], cols[2]),
                   Quantity |-> DictGet(recs[i], cols[3]),
                   Amount   |-> FillNa0(ToNumeric(DictGet(recs[i], cols[4]))),
                   Location |-> loc,
                   Year     |-> yr,
                   Month    |-> mo]])
         ELSE <<>>

\* The handler missing: the exception leaves load_sheet_data.
OnExceptionEscapes ==
    [df |-> <<>>, data |-> <<>>, reported |-> <<>>, raised |-> TRUE]

\* except Exception as e: st.error(...); return pd.DataFrame()
OnException ==
    [df |-> <<>>, data |-> <<>>, reported |-> <<"Error loading data">>, raised |-> FALSE]

LoadSheetData(loc, yr, mo, r) ==
    IF loc \notin DOMAIN LOCATIONS THEN OnException
    ELSE IF r.fault = "open" THEN OnException
    ELSE IF r.fault = "worksheet" THEN OnException
    ELSE LET f == FetchData(r) IN
         IF f.exc THEN OnException
         ELSE [df |-> Normalize(f.data, loc, yr, mo), data |-> f.data,
               reported |-> <<>>, raised |-> FALSE]

(***************************************************************************)
(* calculate_revenue_metrics                                               *)
(***************************************************************************)
\* The product names of the model, in Python's string order.
ProductOrder == <<"Espresso", "Latte", "Mocha">>

StrRank(p) == CHOOSE i \in DOMAIN ProductOrder : ProductOrder[i] = p

\* df['Amount'].sum()
RECURSIVE SumAmount(_)
SumAmount(rows) ==
    IF rows = <<>> THEN 0 ELSE Head(rows).Amount + SumAmount(Tail(rows))

RECURSIVE SortProducts(_)
SortProducts(S) ==
    IF S = {} THEN <<>>
    ELSE LET m == CHOOSE x \in S : \A y \in S : StrRank(x) <= StrRank(y)
         IN  <<m>> \o SortProducts(S \ {m})

\* The group keys in order of first appearance, as with sort=False.
RECURSIVE AppearanceOrder(_, _, _)
AppearanceOrder(t, i, acc) ==
    IF i > Len(t) THEN acc
    ELSE AppearanceOrder(t, i + 1,
                         IF t[i].Product \in Range(acc) THEN acc
                         ELSE Append(acc, t[i].Product))

GroupKeysUnsorted(t) == AppearanceOrder(t, 1, <<>>)

\* The group keys of df.groupby('Product'): sort=True, ascending.
GroupKeys(t) == SortProducts({t[i].Product : i \in DOMAIN t})

GroupRows(t, k) == SelectSeq(t, LAMBDA r : r.Product = k)

\* df.groupby('Product')['Amount'].sum()
ProductRevenue(t) ==
    LET keys == GroupKeys(t) IN
    [i \in DOMAIN keys |-> [Product |-> keys[i], Amount |-> SumAmount(GroupRows(t, keys[i]))]]

\* Series.idxmax(): the label of the first occurrence of the maximum.
RECURSIVE ArgMax(_, _, _)
ArgMax(s, i, best) ==
    IF i > Len(s) THEN best
    ELSE ArgMax(s, i + 1, IF s[i].Amount > s[best].Amount THEN i ELSE best)

IdxMax(s) == s[ArgMax(s, 2, 1)].Product

\* The divisor taken to be the days of a 31-day month.
DailyAverageOver31(total_revenue) == Ratio(total_revenue, 31)

\* daily_average = total_revenue / 30
DailyAverage(total_revenue) == Ratio(total_revenue, 30)

\* len(df)
TransactionCount(t) == Len(t)

CalculateRevenueMetrics(t) ==
    IF t = <<>>
    THEN [total_revenue |-> 0, transaction_count |-> 0, avg_transaction |-> Ratio(0, 1),
          unique_products |-> 0, top_product |-> "N/A", daily_average |-> Ratio(0, 1)]
    ELSE LET total_revenue == SumAmount(t)
             transaction_count == TransactionCount(t)
             product_revenue == ProductRevenue(t)
         IN  [total_revenue |-> total_revenue,
              transaction_count |-> transaction_count,
              avg_transaction |-> IF transaction_count > 0
                                  THEN Ratio(total_revenue, transaction_count)
                                  ELSE Ratio(0, 1),
              unique_products |-> Cardinality({t[i].Product : i \in DOMAIN t}),
              top_product |-> IF product_revenue # <<>> THEN IdxMax(product_revenue) ELSE "N/A",
              daily_average |-> DailyAverage(total_revenue)]

(***************************************************************************)
(* create_revenue_chart                                                    *)
(***************************************************************************)
\* The grouping key left a timestamp, not truncated to its day.
DtTimestamp(ts) == (ts.date % 10000) * 10000 + ts.time

\* df['DateTime'].dt.date
DtDate(ts) == ts.date

RECURSIVE SortInts(_)
SortInts(S) ==
    IF S = {} THEN <<>>
    ELSE LET m == CHOOSE x \in S : \A y \in S : x <= y
         IN  <<m>> \o SortInts(S \ {m})

\* df.groupby(df['DateTime'].dt.date)['Amount'].sum().reset_index(), the
\* frame px.line plots; go.Figure() of an empty table has no points.
DailyRevenue(t) ==
    IF t = <<>> THEN <<>>
    ELSE LET keys == SortInts({DtDate(t[i].DateTime) : i \in DOMAIN t}) IN
         [k \in DOMAIN keys |->
             [Date |-> keys[k],
              Revenue |-> SumAmount(SelectSeq(t, LAMBDA r : DtDate(r.DateTime) = keys[k]))]]

(***************************************************************************)
(* create_product_analysis                                                 *)
(***************************************************************************)
\* round(n / d) to a whole number of pence, halves to even: .round(2).
RoundDiv(n, d) ==
    LET q == n \div d
        r == n % d
    IN  IF 2 * r < d THEN q
        ELSE IF 2 * r > d THEN q + 1
        ELSE IF q % 2 = 0 THEN q ELSE q + 1

\* df.groupby('Product').agg({'Amount': ['sum', 'count', 'mean']}).round(2)
GroupStats(t) ==
    LET keys == GroupKeys(t) IN
    [i \in DOMAIN keys |->
        LET g == GroupRows(t, keys[i]) IN
        [Product |-> keys[i],
         TotalRevenue |-> SumAmount(g),
         TransactionCount |-> Len(g),
         AvgValue |-> RoundDiv(SumAmount(g), Len(g))]]

Orderings(n) == {p \in [1..n -> 1..n] : \A i, j \in 1..n : i # j => p[i] # p[j]}

\* sort_values('Total Revenue', ascending=False) with the default
\* kind='quicksort', which is not stable: every descending arrangement.
SortValuesDesc(stats) ==
    {[i \in DOMAIN stats |-> stats[p[i]]] :
        p \in {q \in Orderings(Len(stats)) :
                 \A i, j \in DOMAIN stats :
                    i < j => stats[q[i]].TotalRevenue >= stats[q[j]].TotalRevenue}}

\* The product_stats tables create_product_analysis can return.
CreateProductAnalysis(t) ==
    IF t = <<>> THEN {<<>>} ELSE SortValuesDesc(GroupStats(t))

(***************************************************************************)
(* Inputs                                                                  *)
(***************************************************************************)
Faults == {"open", "worksheet", "records", "values"}

HeaderRows ==
    {<<"Date", "Product", "Qty", "Amount">>,
     <<"When", "Item", "Count", "Paid">>,
     <<"Date", "Product", "Qty", "Amount", "", "">>,
     <<"When", "Item", "Count", "Paid", "", "">>,
     <<"Date", "", "", "Amount">>,
     <<"Date", "Product", "Qty">>,
     <<"Date", "Date", "Qty">>}

FullRows ==
    {<<ts, "Latte", "1", amt, "", "">> :
        ts \in {"2025-05-01 09:00", "2025-05-02 09:00", "not-a-date"},
        amt \in {"1.00", "abc"}}

\* Data rows of 3, 4 and 6 cells.
RawRows == {Take(r, n) : r \in FullRows, n \in {3, 4, 6}}

Grids(rowset, n) ==
    {<<>>} \cup {<<h>> \o rows : h \in HeaderRows, rows \in SeqsUpTo(rowset, n)}

Remotes ==
    [fault : {"none"}, grid : Grids(RawRows, MaxDataRows)]
        \cup [fault : Faults, grid : Grids(RawRows, 1)]

\* The remote behaviours of a session: every fault, over a few tabs.
SessionRemotes ==
    [fault : Faults \cup {"none"},
     grid : {<<h>> \o rows :
                h \in {<<"Date", "Product", "Qty", "Amount">>,
                       <<"Date", "Product", "Qty", "Amount", "", "">>},
                rows \in SeqsUpTo({<<"2025-05-01 09:00", "Latte", "1", "1.00", "", "">>,
                                   <<"not-a-date", "Latte", "1", "abc", "", "">>}, 1)}]

TableRows ==
    [DateTime : {ToDatetime(c) : c \in {"2025-05-01 09:00", "2025-05-01 17:30",
                                        "2025-05-02 09:00"}},
     Product : {"Espresso", "Latte"},
     Quantity : {"1"},
     Amount : {0, 50, 100},
     Location : {"Oxford East"},
     Year : {2025},
     Month : {"May 25"}]

Tables == SeqsUpTo(TableRows, MaxTableRows)

(***************************************************************************)
(* main                                                                    *)
(***************************************************************************)
NoRemote == [fault |-> "none", grid |-> <<>>]

NoMetrics ==
    [total_revenue |-> 0, transaction_count |-> 0, avg_transaction |-> Ratio(0, 1),
     unique_products |-> 0, top_product |-> "", daily_average |-> Ratio(0, 1)]

NoWidget == [options |-> <<>>, value |-> 0]

\* The locals of a fresh run of the script.
FreshRun ==
    /\ location' = ""
    /\ year' = 0
    /\ month' = ""
    /\ remote' = NoRemote
    /\ data' = <<>>
    /\ df' = <<>>
    /\ reported' = <<>>
    /\ raised' = FALSE
    /\ metrics' = NoMetrics
    /\ daily_revenue' = <<>>
    /\ product_stats' = <<>>

Init ==
    /\ pc = "start"
    /\ gc = "unset"
    /\ w_location = NoWidget
    /\ w_year = NoWidget
    /\ w_month = NoWidget
    /\ location = ""
    /\ year = 0
    /\ month = ""
    /\ remote = NoRemote
    /\ data = <<>>
    /\ df = <<>>
    /\ reported = <<>>
    /\ raised = FALSE
    /\ metrics = NoMetrics
    /\ daily_revenue = <<>>
    /\ product_stats = <<>>

\* gc = init_gspread(): the body runs once, st.cache_resource keeps what it
\* returned; building or authorizing the credentials may fail.
InitGspread ==
    /\ pc = "start"
    /\ IF gc = "unset"
       THEN \E ok \in BOOLEAN :
               /\ gc' = IF ok THEN "client" ELSE "null"
               /\ reported' = IF ok THEN reported
                              ELSE Append(reported, "Authentication failed")
       ELSE UNCHANGED <<gc, reported>>
    /\ pc' = "connected"
    /\ UNCHANGED <<w_location, w_year, w_month, location, year, month, remote,
                   data, df, raised, metrics, daily_revenue, product_stats>>

\* st.stop() missing: the script runs on without a handle.
AfterConnectNoStop(handle) == "select"

\* if not gc: st.error(...); st.stop()
AfterConnect(handle) == IF handle = "null" THEN "halted" ELSE "select"

CheckConnection ==
    /\ pc = "connected"
    /\ pc' = AfterConnect(gc)
    /\ reported' = IF gc = "null"
                   THEN Append(reported, "Could not connect to Google Sheets")
                   ELSE reported
    /\ UNCHANGED <<gc, w_location, w_year, w_month, location, year, month, remote,
                   data, df, raised, metrics, daily_revenue, product_stats>>

\* st.sidebar.selectbox(options, index): the user's choice while the widget
\* still offers the same options, else the option at index (counted from 1).
Selectbox(options, index, w) ==
    IF w.options = options /\ w.value \in Range(options) THEN w.value ELSE options[index]

\* The years of one location offered for every location.
AvailableYearsOfAylesbury(loc) == LOCATIONS["Aylesbury"].years

\* available_years = LOCATIONS[location]["years"]
AvailableYears(loc) == LOCATIONS[loc].years

\* available_months = LOCATIONS[location]["months"][year]
AvailableMonths(loc, yr) == LOCATIONS[loc].months[yr]

\* The three selectboxes of the sidebar.
SelectFilters ==
    /\ pc = "select"
    /\ LET loc == Selectbox(LocationKeys, 1, w_location)
           available_years == AvailableYears(loc)
           yr == Selectbox(available_years, Len(available_years), w_year)
       IN  /\ location' = loc
           /\ year' = yr
           /\ w_location' = [options |-> LocationKeys, value |-> loc]
           /\ w_year' = [options |-> available_years, value |-> yr]
           /\ IF yr \in DOMAIN LOCATIONS[loc].months
              THEN LET available_months == AvailableMonths(loc, yr)
                       mo == Selectbox(available_months, Len(available_months), w_month)
                   IN  /\ month' = mo
                       /\ w_month' = [options |-> available_months, value |-> mo]
                       /\ pc' = "load"
              ELSE /\ pc' = "crashed"      \* KeyError
                   /\ UNCHANGED <<month, w_month>>
    /\ UNCHANGED <<gc, remote, data, df, reported, raised, metrics, daily_revenue,
                   product_stats>>

\* df = load_sheet_data(gc, location, year, month); if df.empty: ... return
Load(remotes) ==
    /\ pc = "load"
    /\ \E r \in remotes :
          LET res == LoadSheetData(location, year, month, r) IN
          /\ remote' = r
          /\ data' = res.data
          /\ df' = res.df
          /\ reported' = reported \o res.reported
          /\ raised' = res.raised
          /\ pc' = IF res.raised THEN "crashed"
                   ELSE IF res.df = <<>> THEN "done" ELSE "metrics"
    /\ UNCHANGED <<gc, w_location, w_year, w_month, location, year, month, metrics,
                   daily_revenue, product_stats>>

LoadSession == Load(SessionRemotes)

LoadAny == Load(Remotes)

\* metrics = calculate_revenue_metrics(df)
CalcMetrics ==
    /\ pc = "metrics"
    /\ metrics' = CalculateRevenueMetrics(df)
    /\ pc' = "chart"
    /\ UNCHANGED <<gc, w_location, w_year, w_month, location, year, month, remote,
                   data, df, reported, raised, daily_revenue, product_stats>>

\* revenue_chart = create_revenue_chart(df)
RevenueChart ==
    /\ pc = "chart"
    /\ daily_revenue' = DailyRevenue(df)
    /\ pc' = "product"
    /\ UNCHANGED <<gc, w_location, w_year, w_month, location, year, month, remote,
                   data, df, reported, raised, metrics, product_stats>>

\* product_chart, product_stats = create_product_analysis(df)
ProductAnalysis ==
    /\ pc = "product"
    /\ product_stats' \in CreateProductAnalysis(df)
    /\ pc' = "done"
    /\ UNCHANGED <<gc, w_location, w_year, w_month, location, year, month, remote,
                   data, df, reported, raised, metrics, daily_revenue>>

\* The user picks another option of a selectbox; Streamlit reruns the script.
ChooseLocation ==
    /\ pc = "done"
    /\ \E l \in Range(w_location.options) \ {w_location.value} :
          w_location' = [w_location EXCEPT !.value = l]
    /\ pc' = "start"
    /\ FreshRun
    /\ UNCHANGED <<gc, w_year, w_month>>

ChooseYear ==
    /\ pc = "done"
    /\ \E y \in Range(w_year.options) \ {w_year.value} :
          w_year' = [w_year EXCEPT !.value = y]
    /\ pc' = "start"
    /\ FreshRun
    /\ UNCHANGED <<gc, w_location, w_month>>

ChooseMonth ==
    /\ pc = "done"
    /\ \E m \in Range(w_month.options) \ {w_month.value} :
          w_month' = [w_month EXCEPT !.value = m]
    /\ pc' = "start"
    /\ FreshRun
    /\ UNCHANGED <<gc, w_location, w_year>>

\* The page is run again with nothing chosen anew.
Rerun ==
    /\ pc \in {"done", "halted"}
    /\ pc' = "start"
    /\ FreshRun
    /\ UNCHANGED <<gc, w_location, w_year, w_month>>

Next ==
    \/ InitGspread
    \/ CheckConnection
    \/ SelectFilters
    \/ LoadSession
    \/ CalcMetrics
    \/ RevenueChart
    \/ ProductAnalysis
    \/ ChooseLocation
    \/ ChooseYear
    \/ ChooseMonth
    \/ Rerun

Spec == Init /\ [][Next]_vars

(***************************************************************************)
(* load_sheet_data alone, over every remote behaviour within the bounds    *)
(***************************************************************************)
InitLoad ==
    /\ pc = "load"
    /\ gc = "client"
    /\ \E loc \in {"Oxford East", "Aylesbury"} :
          /\ location = loc
          /\ year = AvailableYears(loc)[1]
          /\ month = AvailableMonths(loc, year)[1]
          /\ w_location = [options |-> LocationKeys, value |-> loc]
          /\ w_year = [options |-> AvailableYears(loc), value |-> year]
          /\ w_month = [options |-> AvailableMonths(loc, year), value |-> month]
    /\ remote = NoRemote
    /\ data = <<>>
    /\ df = <<>>
    /\ reported = <<>>
    /\ raised = FALSE
    /\ metrics = NoMetrics
    /\ daily_revenue = <<>>
    /\ product_stats = <<>>

NextLoad == LoadAny

SpecLoad == InitLoad /\ [][NextLoad]_vars

(***************************************************************************)
(* The aggregations alone, over every table within the bounds              *)
(***************************************************************************)
InitAgg ==
    /\ pc = "metrics"
    /\ gc = "client"
    /\ w_location = [options |-> LocationKeys, value |-> "Oxford East"]
    /\ w_year = [options |-> <<2025>>, value |-> 2025]
    /\ w_month = [options |-> TabsMayToDec25, value |-> "May 25"]
    /\ location = "Oxford East"
    /\ year = 2025
    /\ month = "May 25"
    /\ remote = NoRemote
    /\ data = <<>>
    /\ df \in Tables
    /\ reported = <<>>
    /\ raised = FALSE
    /\ metrics = NoMetrics
    /\ daily_revenue = <<>>
    /\ product_stats = <<>>

NextAgg ==
    \/ CalcMetrics
    \/ RevenueChart
    \/ ProductAnalysis

SpecAgg == InitAgg /\ [][NextAgg]_vars

(***************************************************************************)
(* Properties                                                              *)
(***************************************************************************)
\* load_sheet_data has returned (or failed) in this run.
LoadReturned == pc \in {"metrics", "chart", "product", "done", "crashed"} /\ location # ""

\* The sum of the amounts of the rows of t whose index is in I.
RECURSIVE RowSum(_, _)
RowSum(t, I) ==
    IF I = {} THEN 0
    ELSE LET i == CHOOSE i \in I : TRUE IN t[i].Amount + RowSum(t, I \ {i})

\* A call to the remote source failed during this load.
RemoteFailed(r) ==
    \/ r.fault \in {"open", "worksheet", "records"}
    \/ r.fault = "values" /\ Len(r.grid) > 0 /\ HasDuplicates(r.grid[1])

\* C1: whatever call to the remote source fails (opening the document, finding
\* the tab, get_all_records with an error that is not the duplicate-header
\* one, get_all_values on the raw-grid path), load_sheet_data returns the
\* empty table and reports exactly one error, and no exception reaches main.
C1_LoadNeverRaises ==
    /\ ~raised
    /\ pc # "crashed"
    /\ (LoadReturned /\ RemoteFailed(remote)) =>
          /\ df = <<>>
          /\ reported = <<"Error loading data">>

C1_Witness ==
    /\ LoadReturned
    /\ remote.fault = "values"
    /\ HasDuplicates(remote.grid[1])
    /\ Len(remote.grid) > 1
    /\ location = "Aylesbury"
    /\ df = <<>>
    /\ Len(reported) = 1

\* Cell j of a raw row, '' where the row has no such cell.
Cell(row, j) == IF j <= Len(row) THEN row[j] ELSE ""

\* The table the two coercion policies owe for the data rows of a grid.
CoercedRows(grid, loc, yr, mo) ==
    LET rows == SubSeq(grid, 2, Len(grid))
        kept == SelectSeq(rows, LAMBDA row : ToDatetime(Cell(row, 1)).ok)
    IN  [i \in DOMAIN kept |->
            [DateTime |-> ToDatetime(Cell(kept[i], 1)),
             Product  |-> Cell(kept[i], 2),
             Quantity |-> Cell(kept[i], 3),
             Amount   |-> IF ToNumeric(Cell(kept[i], 4)).ok
                          THEN ToNumeric(Cell(kept[i], 4)).val ELSE 0,
             Location |-> loc,
             Year     |-> yr,
             Month    |-> mo]]

\* C2: a non-empty table returned by load_sheet_data holds, in order, exactly
\* the raw rows whose timestamp parses, an uncoercible amount replaced by 0:
\* one row fewer per unparsable timestamp, no other row dropped or altered.
C2_CoercionPolicies ==
    (LoadReturned /\ df # <<>>) => df = CoercedRows(remote.grid, location, year, month)

\* The raw-grid path was taken and read the grid.
OnRawGridPath ==
    /\ LoadReturned
    /\ remote.fault = "none"
    /\ Len(remote.grid) > 1
    /\ HasDuplicates(remote.grid[1])

\* C3: on the raw-grid path every data row yields one record, zipped against
\* the first 4 header cells; a row with fewer cells is kept, its missing
\* cells padded with ''.
C3_RawGridKeepsEveryRow ==
    OnRawGridPath =>
        LET clean == Take(remote.grid[1], 4) IN
        /\ Len(data) = Len(remote.grid) - 1
        /\ ~HasDuplicates(clean) =>
              \A i \in DOMAIN data : \A j \in DOMAIN clean :
                  DictGet(data[i], clean[j]) = Cell(remote.grid[i + 1], j)

\* C4: over a grid of at least 4 columns (the header row and every data row
\* have at least 4 cells), the table does not depend on the text of the
\* header cells: any other header row of the same width over the same data
\* rows, empty or repeated cells among its first 4 included, loads to the
\* same table.
C4_HeaderTextIgnored ==
    (LoadReturned /\ remote.fault = "none" /\ Len(remote.grid) >= 1
        /\ \A i \in DOMAIN remote.grid : Len(remote.grid[i]) >= 4) =>
        \A h \in HeaderRows :
            Len(h) = Len(remote.grid[1]) =>
                LoadSheetData(location, year, month,
                              [remote EXCEPT !.grid = <<h>> \o Tail(remote.grid)]).df = df

\* calculate_revenue_metrics(df) is in metrics.
MetricsComputed == pc \in {"chart", "product"}

\* C5: total_revenue is the sum of the amounts, transaction_count the number
\* of rows (zero amounts included), avg_transaction their quotient,
\* unique_products the number of distinct products, daily_average
\* total_revenue / 30; the empty table gives 0 everywhere and 'N/A'.
C5_RevenueMetrics ==
    MetricsComputed =>
        LET n == Len(df)
            total == RowSum(df, DOMAIN df)
        IN  /\ metrics.total_revenue = total
            /\ metrics.transaction_count = n
            /\ metrics.avg_transaction.den > 0
            /\ metrics.avg_transaction.num * (IF n = 0 THEN 1 ELSE n)
                  = total * metrics.avg_transaction.den
            /\ metrics.unique_products = Cardinality({df[i].Product : i \in DOMAIN df})
            /\ metrics.daily_average.den > 0
            /\ metrics.daily_average.num * 30 = total * metrics.daily_average.den
            /\ n = 0 =>
                  /\ metrics.total_revenue = 0
                  /\ metrics.avg_transaction.num = 0
                  /\ metrics.unique_products = 0
                  /\ metrics.daily_average.num = 0
                  /\ metrics.top_product = "N/A"

C5_Witness ==
    /\ MetricsComputed
    /\ Len(df) = 3
    /\ \E i \in DOMAIN df : df[i].Amount = 0
    /\ metrics.total_revenue = 100
    /\ metrics.transaction_count = 3
    /\ metrics.avg_transaction = [num |-> 100, den |-> 3]
    /\ metrics.daily_average = [num |-> 10, den |-> 3]

C5_WitnessEmpty ==
    /\ MetricsComputed
    /\ df = <<>>
    /\ metrics.top_product = "N/A"

\* The summed amount of product p in t.
RevenueOf(t, p) == RowSum(t, {i \in DOMAIN t : t[i].Product = p})

\* C6: top_product of a non-empty table is a product of maximal summed
\* amount, and among the products of maximal summed amount the first in
\* string order, whatever the order of the rows.
C6_TopProduct ==
    (MetricsComputed /\ df # <<>>) =>
        LET products == {df[i].Product : i \in DOMAIN df}
            top == metrics.top_product
        IN  /\ top \in products
            /\ \A p \in products :
                  /\ RevenueOf(df, p) <= RevenueOf(df, top)
                  /\ RevenueOf(df, p) = RevenueOf(df, top) => StrRank(top) <= StrRank(p)

C6_Witness ==
    /\ MetricsComputed
    /\ Len(df) = 3
    /\ df[1].Product = "Latte"
    /\ df[1].Amount = 100
    /\ RevenueOf(df, "Latte") = 100
    /\ RevenueOf(df, "Espresso") = 100
    /\ metrics.top_product = "Espresso"

\* C7: product_stats of a non-empty table has one entry per distinct product
\* with the sum, the count and the mean (to the penny) of its amounts, by
\* total revenue descending, equal totals by product name ascending.
C7_ProductBreakdown ==
    (pc = "done" /\ df # <<>>) =>
        LET products == {df[i].Product : i \in DOMAIN df} IN
        /\ Len(product_stats) = Cardinality(products)
        /\ {product_stats[k].Product : k \in DOMAIN product_stats} = products
        /\ \A k \in DOMAIN product_stats :
              LET e == product_stats[k]
                  rows == {i \in DOMAIN df : df[i].Product = e.Product}
                  off == e.AvgValue * Cardinality(rows) - RowSum(df, rows)
              IN  /\ e.TotalRevenue = RowSum(df, rows)
                  /\ e.TransactionCount = Cardinality(rows)
                  /\ 2 * off <= Cardinality(rows)
                  /\ -2 * off <= Cardinality(rows)
        /\ \A k, l \in DOMAIN product_stats :
              k < l =>
                 \/ product_stats[k].TotalRevenue > product_stats[l].TotalRevenue
                 \/ /\ product_stats[k].TotalRevenue = product_stats[l].TotalRevenue
                    /\ StrRank(product_stats[k].Product) < StrRank(product_stats[l].Product)

\* C8: the script reaches the filters, load_sheet_data, the metrics and the
\* rendering only with a handle init_gspread returned; a failed connection
\* is reported and halts the run.
C8_AuthenticationGate ==
    /\ pc \in {"select", "load", "metrics", "chart", "product", "done"} => gc = "client"
    /\ gc = "null" =>
          /\ pc \in {"start", "connected", "halted"}
          /\ df = <<>> /\ location = "" /\ metrics = NoMetrics
    /\ pc = "halted" =>
          /\ reported # <<>>
          /\ reported[Len(reported)] = "Could not connect to Google Sheets"

C8_Witness ==
    /\ pc = "halted"
    /\ gc = "null"
    /\ reported = <<"Authentication failed", "Could not connect to Google Sheets">>

\* create_revenue_chart(df) is in daily_revenue.
ChartBuilt == pc \in {"product", "done"} /\ metrics # NoMetrics

\* C9: the daily series has one point per distinct calendar date of the
\* table, its revenue the sum of the amounts of the rows of that date, the
\* points by date ascending; the empty table gives the empty series.
C9_DailyRevenue ==
    ChartBuilt =>
        LET dates == {df[i].DateTime.date : i \in DOMAIN df} IN
        /\ Len(daily_revenue) = Cardinality(dates)
        /\ \A k \in DOMAIN daily_revenue :
              /\ daily_revenue[k].Date \in dates
              /\ daily_revenue[k].Revenue =
                    RowSum(df, {i \in DOMAIN df : df[i].DateTime.date = daily_revenue[k].Date})
        /\ \A k, l \in DOMAIN daily_revenue :
              k < l => daily_revenue[k].Date < daily_revenue[l].Date
        /\ df = <<>> => daily_revenue = <<>>

C9_Witness ==
    /\ ChartBuilt
    /\ Len(df) = 3
    /\ df[1].DateTime = [ok |-> TRUE, date |-> 20250502, time |-> 900]
    /\ df[2].DateTime = [ok |-> TRUE, date |-> 20250501, time |-> 1730]
    /\ df[3].DateTime = [ok |-> TRUE, date |-> 20250501, time |-> 900]
    /\ df[2].Amount = 50
    /\ df[3].Amount = 100
    /\ daily_revenue = <<[Date |-> 20250501, Revenue |-> 150],
                         [Date |-> 20250502, Revenue |-> df[1].Amount]>>

\* C10: the script never fails looking a year up in the registry, and the
\* key it passes to load_sheet_data is a location of the registry, a year
\* configured for it and a tab label of that location and year.
C10_PeriodKeyValid ==
    /\ pc # "crashed"
    /\ pc \in {"load", "metrics", "chart", "product", "done"} /\ location # "" =>
          /\ location \in DOMAIN LOCATIONS
          /\ year \in Range(LOCATIONS[location].years)
          /\ year \in DOMAIN LOCATIONS[location].months
          /\ month \in Range(LOCATIONS[location].months[year])

C10_Witness ==
    /\ pc = "load"
    /\ location = "Aylesbury"
    /\ year = 2023
    /\ month = "Feb 23"

====
